---------------------------- MODULE Spec2Model ----------------------------
(***************************************************************************)
(* p2pchat: the event loop (App::run), the input dispatcher                *)
(* (handle_input_event and its two page handlers), the network event       *)
(* handler (handle_connection_event), the connection session (Connection)  *)
(* and the focus / list-selection state of the Ui.                         *)
(*                                                                         *)
(* Text is a sequence of Unicode code points, bytes are numbers 0..255.    *)
(* Option<T> is a sequence: None is << >>, Some(x) is <<x>>.               *)
(* The libp2p swarm is an opaque handle, named by the number of the        *)
(* generate_swarm() call that built it; each call makes a fresh keypair,   *)
(* so the handle's number is also its local peer id.                       *)
(***************************************************************************)
EXTENDS Integers, Sequences, FiniteSets, TLC

\* ------------------------------------------------------------------ bounds
\* Longest chat input buffer the model types.
MaxChatInput == 1
\* Longest address input buffer the model types.
MaxAddrInput == 1
\* Longest chat history the model builds.
MaxHistory == 2
\* Longest connection log the model builds.
MaxLog == 2
\* Number of swarms generate_swarm() builds successfully (the first in App::new).
MaxSwarms == 2
\* Largest list index the model lets the selection reach.
MaxSelected == 2

\* usize::MAX, the value `0usize - 1` wraps to when overflow checks are off.
\* It stands for 2^64 - 1; only its being larger than every index matters.
UsizeMax == 2147483647

\* ------------------------------------------------------------------ inputs
None == << >>
Some(x) == <<x>>

\* '/'
Slash == 47
\* Code points the keyboard types.
Chars == {Slash}

KeyEvent(code, modifiers) == [type |-> "Key", code |-> code, modifiers |-> modifiers]
MouseEvent(kind, column, row) ==
    [type |-> "Mouse", kind |-> kind, column |-> column, row |-> row]
ResizeEvent == [type |-> "Resize"]

\* Screen coordinates (column, row) the mouse reports.
MouseCoords == {<<1, 4>>, <<1, 7>>}

\* The decoded input events the terminal delivers.
InputEvents ==
    {KeyEvent(<<"Tab">>, "NONE"), KeyEvent(<<"Enter">>, "NONE"),
     KeyEvent(<<"Backspace">>, "NONE"), KeyEvent(<<"Down">>, "NONE"),
     KeyEvent(<<"Up">>, "NONE"),
     KeyEvent(<<"Char", 99>>, "CONTROL"), KeyEvent(<<"Char", 117>>, "CONTROL")}
    \cup {KeyEvent(<<"Char", c>>, "NONE") : c \in Chars}
    \cup {KeyEvent(<<"Char", Slash>>, "SHIFT")}
    \cup {MouseEvent(k, c[1], c[2]) : k \in {"ScrollDown", "ScrollUp"}, c \in MouseCoords}
    \cup {ResizeEvent}

\* Remote peers: the author of a message and the peer that forwarded it.
AuthorPeer == 8
RelayPeer == 9

\* Payloads of received gossipsub messages: "h", an invalid byte, and the
\* two bytes of U+00E9.
Payloads == {<<104, 255, 195, 169>>}

\* The events the swarm's stream yields.
ConnectionEvents ==
    {[type |-> "NewListenAddr", address |-> "/ip4/127.0.0.1/tcp/4001"]}
    \cup {[type |-> "Behaviour", event |-> "Message", propagation_source |-> RelayPeer,
           data |-> d, source |-> AuthorPeer] : d \in Payloads}
    \cup {[type |-> "Behaviour", event |-> "Subscribed", peer_id |-> RelayPeer]}
    \cup {[type |-> "OutgoingConnectionError", error |-> "Transport"]}

\* Errors of the external calls.
PublishErrors == {"InsufficientPeers"}
DialErrors == {"NoAddresses"}
GenerateErrors == {"listen_on"}
\* Outcomes of the one external call a handler may make: Ok(()) or Err(e).
Ok == << >>
Outcomes == {Ok} \cup {<<e>> : e \in PublishErrors \cup DialErrors \cup GenerateErrors}

\* Terminal size (columns, rows) the renderer lays out.
TermSize == <<8, 16>>

VARIABLES
    pc,                        \* App::run: "select", "render", "done", "failed", "panic"
    page_focus,                \* app.ui.page_focus
    connection_page_focus,     \* app.ui.connection_page_focus
    chat_input,                \* app.ui.chat_input
    addr_input,                \* app.ui.addr_input
    connection_log_allocation, \* app.ui.connection_log_allocation
    selected,                  \* app.ui.connection_log_liststate.selected()
    history,                   \* app.history
    log,                       \* app.connection.log
    swarm,                     \* app.connection.swarm
    current_topic,             \* app.connection.current_topic
    input_terminated,          \* the fused input stream has ended
    swarms_built,              \* number of swarms generate_swarm() has built
    superseded,                \* handles replaced by a regeneration
    called,                    \* the network call the last step issued, if any
    last,                      \* the event the last iteration handled, if any
    dispatched,                \* the page handler the last step called, if any
    tab_parity                 \* number of Tab presses handled, modulo 2

vars == <<pc, page_focus, connection_page_focus, chat_input, addr_input,
          connection_log_allocation, selected, history, log, swarm, current_topic,
          input_terminated, swarms_built, superseded, called, last, dispatched,
          tab_parity>>


\* ------------------------------------------------------- focus (ui.rs)
PageFocusValues == {"Chat", "Connection"}
ConnectionPageFocusValues == {"ConnectionLog", "RegenerateSwarm", "AddrInputField"}

\* A prev() whose last arm repeats the first arm's target.
ConnectionPageFocusPrevSlip(f) ==
    CASE f = "ConnectionLog" -> "AddrInputField"
      [] f = "RegenerateSwarm" -> "ConnectionLog"
      [] f = "AddrInputField" -> "AddrInputField"

\* A next() that does not wrap from the last page to the first.
PageFocusNextStuck(f) == "Connection"

\* impl CycleFocus for ConnectionPageFocus
ConnectionPageFocusNext(f) ==
    CASE f = "ConnectionLog" -> "RegenerateSwarm"
      [] f = "RegenerateSwarm" -> "AddrInputField"
      [] f = "AddrInputField" -> "ConnectionLog"

ConnectionPageFocusPrev(f) ==
    CASE f = "ConnectionLog" -> "AddrInputField"
      [] f = "RegenerateSwarm" -> "ConnectionLog"
      [] f = "AddrInputField" -> "RegenerateSwarm"

\* impl CycleFocus for PageFocus
PageFocusNext(f) ==
    CASE f = "Chat" -> "Connection"
      [] f = "Connection" -> "Chat"

\* ------------------------------------------------------- strings
\* String::pop: drops the last character, if any.
Pop(s) == IF s = << >> THEN s ELSE SubSeq(s, 1, Len(s) - 1)

\* str::as_bytes: the UTF-8 encoding of the text.
RECURSIVE AsBytes(_)
AsBytes(s) ==
    IF s = << >> THEN << >>
    ELSE LET c == Head(s) IN
         IF c < 128 THEN <<c>> \o AsBytes(Tail(s))
         ELSE IF c < 2048 THEN <<192 + (c \div 64), 128 + (c % 64)>> \o AsBytes(Tail(s))
         ELSE <<224 + (c \div 4096), 128 + ((c \div 64) % 64), 128 + (c % 64)>>
                  \o AsBytes(Tail(s))

\* U+FFFD REPLACEMENT CHARACTER
ReplacementChar == 65533

IsContinuation(b) == b >= 128 /\ b < 192

\* String::from_utf8_lossy: every well-formed sequence decodes to its code
\* point, every ill-formed byte to U+FFFD (sequences of up to two bytes; a
\* longer lead byte has no continuation among the payloads).
RECURSIVE FromUtf8Lossy(_)
FromUtf8Lossy(b) ==
    IF b = << >> THEN << >>
    ELSE LET b0 == Head(b) IN
         IF b0 < 128 THEN <<b0>> \o FromUtf8Lossy(Tail(b))
         ELSE IF b0 >= 194 /\ b0 < 224 /\ Len(b) >= 2 /\ IsContinuation(b[2])
              THEN <<(b0 - 192) * 64 + (b[2] - 128)>> \o FromUtf8Lossy(SubSeq(b, 3, Len(b)))
         ELSE <<ReplacementChar>> \o FromUtf8Lossy(Tail(b))

\* ------------------------------------------------------- Multiaddr
\* str::split('/'): the parts between the separators.
RECURSIVE SplitSlash(_, _)
SplitSlash(s, part) ==
    IF s = << >> THEN <<part>>
    ELSE IF Head(s) = Slash THEN <<part>> \o SplitSlash(Tail(s), << >>)
    ELSE SplitSlash(Tail(s), Append(part, Head(s)))

\* Protocol names that take no argument: "ws", "wss" (a name that takes
\* one cannot be completed within MaxAddrInput).
NoArgProtocols == {<<119, 115>>, <<119, 115, 115>>}

\* A parse that accepts every text.
MultiaddrParseLenient(s) == [ok |-> TRUE, addr |-> s]

\* <Multiaddr as FromStr>::from_str: the text must start with '/' (or be
\* empty), and every following part must name a protocol.
MultiaddrParse(s) ==
    LET parts == SplitSlash(s, << >>) IN
    IF Head(parts) # << >> THEN [ok |-> FALSE, err |-> "InvalidMultiaddr"]
    ELSE IF \A i \in 2..Len(parts) : parts[i] \in NoArgProtocols
         THEN [ok |-> TRUE, addr |-> s]
         ELSE [ok |-> FALSE, err |-> "UnknownProtocolString"]

\* ------------------------------------------------------- log entries
PublishErrorEntry(e) == <<"Publish error: ", e>>
RegenerateFailedEntry(e) == <<"regenerate_swarm() failed with Err ", e>>
DialingEntry(addr) == <<"dialing: ", addr>>
DialFailedEntry(addr, e) == <<"dialing to addr ", addr, " failed with Err ", e>>
ParseFailedEntry(e) == <<"parsing input as MultiAddr failed with Err ", e>>
ListeningEntry(address) == <<"Listening on ", address>>
\* message_id_fn: the id is the hash of the payload.
MessageId(data) == <<"hash", data>>
GotMessageEntry(data, peer_id) ==
    <<"Got message: ", FromUtf8Lossy(data), " with id: ", MessageId(data),
      " from peer: ", peer_id>>
BehaviourEntry(event) == <<"{:?}", event>>

\* Message::new(text, peer_id)
Message(text, peer_id) == [text |-> text, peer_id |-> peer_id]

\* The handle Connection::new builds.
InitialSwarm == 1

\* A regeneration that reuses the key pair of the first handle.
LocalPeerIdReused(h) == InitialSwarm

\* Swarm::local_peer_id
LocalPeerId(h) == h

\* ------------------------------------------------------- list selection
\* `len - 1` on usize: wraps when overflow checks are off.
WrappingSub1(n) == IF n = 0 THEN UsizeMax ELSE n - 1

\* App::connection_log_next: the index it selects.
ConnectionLogNext(sel, len) ==
    IF sel = None THEN 0
    ELSE IF sel[1] >= WrappingSub1(len) THEN sel[1] ELSE sel[1] + 1

\* App::connection_log_next evaluates `len - 1` with len = 0: a build with
\* overflow checks panics there, a build without them wraps.
ConnectionLogNextOverflows(sel, len) == sel # None /\ len = 0

\* App::connection_log_previous: the index it selects.
ConnectionLogPrevious(sel) ==
    IF sel = None THEN 0
    ELSE IF sel[1] = 0 THEN 0 ELSE sel[1] - 1

\* utils::coord_in_rect
CoordInRect(coord, rect) ==
    /\ rect.x <= coord[1] /\ coord[1] <= rect.width
    /\ rect.y <= coord[2] /\ coord[2] <= rect.height

\* The rectangle draw_connection_page gives the connection log: the frame
\* less the margin of 1, below the 3-row header, above two 3-row fields.
ConnectionLogRect(size) ==
    [x |-> 1, y |-> 4, width |-> size[1] - 2, height |-> size[2] - 11]

\* ------------------------------------------------------- key patterns
IsKey(ev, code, modifiers) ==
    ev.type = "Key" /\ ev.code = code /\ ev.modifiers = modifiers
\* (KeyCode::Char(c), KeyModifiers::NONE | KeyModifiers::SHIFT)
IsTypedChar(ev) ==
    ev.type = "Key" /\ Len(ev.code) = 2 /\ ev.modifiers \in {"NONE", "SHIFT"}
IsTab(ev) == IsKey(ev, <<"Tab">>, "NONE")
\* A quit key that only the Chat page honours.
IsQuitOnChatPage(ev) == IsKey(ev, <<"Char", 99>>, "CONTROL") /\ page_focus = "Chat"
\* (KeyCode::Char('c'), KeyModifiers::CONTROL), matched before any page handler
IsQuit(ev) == IsKey(ev, <<"Char", 99>>, "CONTROL")
IsEnter(ev) == IsKey(ev, <<"Enter">>, "NONE")
IsScroll(ev, kind) == ev.type = "Mouse" /\ ev.kind = kind

\* The size of everything the model lets grow stays within the bounds.
WithinBounds ==
    /\ Len(chat_input) <= MaxChatInput
    /\ Len(addr_input) <= MaxAddrInput
    /\ Len(history) <= MaxHistory
    /\ Len(log) <= MaxLog
    /\ swarms_built <= MaxSwarms
    /\ (selected # None => selected[1] <= MaxSelected)

\* A poll of the event stream of the handle App::new built.
PolledSwarmStale == InitialSwarm

\* A poll of the event stream of the handle the last regeneration replaced.
PolledSwarmReplaced == IF superseded = {} THEN swarm ELSE CHOOSE h \in superseded : \A g \in superseded : g <= h

\* The handle a publish or a dial is issued on.
LiveSwarm == swarm
\* The handle whose event stream an iteration of the loop polls.
PolledSwarm == swarm

\* ------------------------------------------------------- Connection
\* Connection::generate_swarm, Ok: a fresh handle with a fresh identity.
GenerateSwarm == swarms_built + 1

\* A push that inserts the entry at the head of the log.
PushLogEntryFront(l, message) == <<message>> \o l

\* Connection::push_log_entry
PushLogEntry(l, message) == Append(l, message)

\* ------------------------------------------------------- input.rs
\* A handler that returns on a publish error before it pushes the message.
PublishedHistoryOnlyOnOk(h, message, out) == IF out = Ok THEN Append(h, message) ELSE h

\* A handler that puts the committed message in front of the history.
PublishedHistoryPrepended(h, message, out) == <<message>> \o h

\* handle_input_event_chat_page, Enter: the history once the publish call has
\* returned `out`; the message is pushed whatever the call returned.
PublishedHistory(h, message, out) == Append(h, message)

\* handle_input_event_chat_page
handle_input_event_chat_page(ev, out) ==
    /\ UNCHANGED <<connection_page_focus, addr_input, selected, swarm, current_topic,
                   swarms_built, superseded>>
    /\ CASE IsKey(ev, <<"Backspace">>, "NONE") ->
              /\ out = Ok
              /\ chat_input' = Pop(chat_input)
              /\ called' = None
              /\ UNCHANGED <<history, log>>
         [] IsEnter(ev) ->
              /\ out \in {Ok} \cup {<<e>> : e \in PublishErrors}
              /\ called' = <<"publish", LiveSwarm, current_topic, AsBytes(chat_input)>>
              /\ log' = IF out = Ok THEN log ELSE Append(log, PublishErrorEntry(out[1]))
              /\ history' = PublishedHistory(history,
                                              Message(chat_input, LocalPeerId(LiveSwarm)), out)
              /\ chat_input' = << >>
         [] IsKey(ev, <<"Char", 117>>, "CONTROL") ->
              /\ out = Ok
              /\ chat_input' = << >>
              /\ called' = None
              /\ UNCHANGED <<history, log>>
         [] IsTypedChar(ev) ->
              /\ out = Ok
              /\ chat_input' = Append(chat_input, ev.code[2])
              /\ called' = None
              /\ UNCHANGED <<history, log>>
         [] OTHER ->
              /\ out = Ok
              /\ called' = None
              /\ UNCHANGED <<chat_input, history, log>>
    /\ pc' = "render"

\* handle_input_event_connection_page, ConnectionPageFocus::ConnectionLog
connection_log_focus(ev, out) ==
    /\ out = Ok
    /\ called' = None
    /\ UNCHANGED <<addr_input, log, swarm, current_topic, swarms_built, superseded>>
    /\ IF /\ IsScroll(ev, "ScrollDown")
          /\ connection_log_allocation # None
          /\ CoordInRect(<<ev.column, ev.row>>, connection_log_allocation[1])
       THEN \/ /\ ConnectionLogNextOverflows(selected, Len(log))
               /\ pc' = "panic"
               /\ UNCHANGED selected
            \/ /\ pc' = "render"
               /\ selected' = Some(ConnectionLogNext(selected, Len(log)))
       ELSE IF /\ IsScroll(ev, "ScrollUp")
               /\ connection_log_allocation # None
               /\ CoordInRect(<<ev.column, ev.row>>, connection_log_allocation[1])
       THEN pc' = "render" /\ selected' = Some(ConnectionLogPrevious(selected))
       ELSE pc' = "render" /\ UNCHANGED selected

\* A regeneration that clears the log only once the new handle is built.
RegeneratedLogClearedOnOk(out) ==
    IF out = Ok THEN << >> ELSE PushLogEntry(log, RegenerateFailedEntry(out[1]))

\* The connection log once a regeneration has cleared it and, on failure,
\* pushed the failure.
RegeneratedLog(out) ==
    IF out = Ok THEN << >> ELSE PushLogEntry(<< >>, RegenerateFailedEntry(out[1]))

\* The list selection after a regeneration: the arm never touches it.
RegeneratedSelection(sel) == sel

\* A regeneration that drops the old handle before it builds the new one.
RegeneratedSwarmDropsOld(out) == IF out = Ok THEN GenerateSwarm ELSE 0

\* The handle after a regeneration: the new one, or on failure the old one.
RegeneratedSwarm(out) == IF out = Ok THEN GenerateSwarm ELSE swarm

\* handle_input_event_connection_page, ConnectionPageFocus::RegenerateSwarm
regenerate_swarm_focus(ev, out) ==
    /\ called' = None
    /\ UNCHANGED addr_input
    /\ pc' = "render"
    /\ IF IsEnter(ev)
       THEN /\ out \in {Ok} \cup {<<e>> : e \in GenerateErrors}
            /\ current_topic' = "test-net"
            /\ log' = RegeneratedLog(out)
            /\ selected' = RegeneratedSelection(selected)
            /\ swarm' = RegeneratedSwarm(out)
            /\ swarms_built' = IF out = Ok THEN swarms_built + 1 ELSE swarms_built
            /\ superseded' = IF swarm' # swarm THEN superseded \cup {swarm} ELSE superseded
       ELSE /\ out = Ok
            /\ UNCHANGED <<current_topic, log, selected, swarm, swarms_built, superseded>>

\* A dial that logs the address only once the request has been accepted.
DialedLogAfterRequest(l, addr, out) ==
    IF out = Ok
    THEN PushLogEntry(l, DialingEntry(addr))
    ELSE PushLogEntry(l, DialFailedEntry(addr, out[1]))

\* Connection::dial and its caller's unwrap_or_else: the log once the dial
\* request has returned `out`. The "dialing" entry is pushed before the
\* request, the failure after it.
DialedLog(l, addr, out) ==
    IF out = Ok
    THEN PushLogEntry(l, DialingEntry(addr))
    ELSE PushLogEntry(PushLogEntry(l, DialingEntry(addr)), DialFailedEntry(addr, out[1]))

\* handle_input_event_connection_page, ConnectionPageFocus::AddrInputField
addr_input_field_focus(ev, out) ==
    /\ UNCHANGED <<selected, swarm, current_topic, swarms_built, superseded>>
    /\ pc' = "render"
    /\ CASE IsTypedChar(ev) ->
              /\ out = Ok
              /\ addr_input' = Append(addr_input, ev.code[2])
              /\ called' = None
              /\ UNCHANGED log
         [] IsKey(ev, <<"Backspace">>, "NONE") ->
              /\ out = Ok
              /\ addr_input' = Pop(addr_input)
              /\ called' = None
              /\ UNCHANGED log
         [] IsEnter(ev) ->
              LET parsed == MultiaddrParse(addr_input) IN
              /\ UNCHANGED addr_input
              /\ IF parsed.ok
                 THEN \* Connection::dial, and the caller's unwrap_or_else
                      /\ out \in {Ok} \cup {<<e>> : e \in DialErrors}
                      /\ called' = <<"dial", LiveSwarm, parsed.addr>>
                      /\ log' = DialedLog(log, parsed.addr, out)
                 ELSE /\ out = Ok
                      /\ called' = None
                      /\ log' = PushLogEntry(log, ParseFailedEntry(parsed.err))
         [] OTHER ->
              /\ out = Ok
              /\ called' = None
              /\ UNCHANGED <<addr_input, log>>

\* handle_input_event_connection_page
handle_input_event_connection_page(ev, out) ==
    LET focus == IF IsKey(ev, <<"Down">>, "NONE")
                 THEN ConnectionPageFocusNext(connection_page_focus)
                 ELSE IF IsKey(ev, <<"Up">>, "NONE")
                 THEN ConnectionPageFocusPrev(connection_page_focus)
                 ELSE connection_page_focus
    IN  /\ connection_page_focus' = focus
        /\ UNCHANGED <<chat_input, history>>
        /\ CASE focus = "ConnectionLog" -> connection_log_focus(ev, out)
             [] focus = "RegenerateSwarm" -> regenerate_swarm_focus(ev, out)
             [] focus = "AddrInputField" -> addr_input_field_focus(ev, out)

\* handle_input_event: the second match reads app.ui.page_focus after the
\* Tab arm has updated it.
DispatchedPage(before, after) == after

\* handle_input_event
handle_input_event(ev, out) ==
    IF IsQuit(ev)
    THEN /\ out = Ok
         /\ pc' = "done"
         /\ called' = None
         /\ dispatched' = None
         /\ UNCHANGED <<page_focus, connection_page_focus, chat_input, addr_input, selected,
                        history, log, swarm, current_topic, swarms_built, superseded>>
    ELSE LET toggled == IF IsTab(ev) THEN PageFocusNext(page_focus) ELSE page_focus
             page == DispatchedPage(page_focus, toggled)
         IN
         /\ page_focus' = toggled
         /\ dispatched' = Some(page)
         /\ CASE page = "Chat" -> handle_input_event_chat_page(ev, out)
              [] page = "Connection" -> handle_input_event_connection_page(ev, out)

\* ------------------------------------------------------- connection.rs
\* A handler that takes the forwarding peer for the author.
MessageAuthorIsRelay(ev) == ev.propagation_source

\* handle_connection_event, GossipsubEvent::Message: the author of the
\* history entry is the message's source.
MessageAuthor(ev) == ev.source

\* handle_connection_event
handle_connection_event(ev) ==
    /\ UNCHANGED <<page_focus, connection_page_focus, chat_input, addr_input, selected,
                   swarm, current_topic, swarms_built, superseded>>
    /\ CASE ev.type = "NewListenAddr" ->
              /\ log' = PushLogEntry(log, ListeningEntry(ev.address))
              /\ UNCHANGED history
         [] ev.type = "Behaviour" /\ ev.event = "Message" ->
              /\ log' = Append(log, GotMessageEntry(ev.data, ev.propagation_source))
              /\ history' = Append(history, Message(FromUtf8Lossy(ev.data), MessageAuthor(ev)))
         [] ev.type = "Behaviour" /\ ev.event # "Message" ->
              /\ log' = PushLogEntry(log, BehaviourEntry(ev))
              /\ UNCHANGED history
         [] OTHER -> UNCHANGED <<log, history>>

\* ------------------------------------------------------- ui.rs
\* draw_chat_page: the history entries the render shows as own messages,
\* those whose peer id is the local peer id of the live swarm.
OwnMessages == {i \in 1..Len(history) : history[i].peer_id = LocalPeerId(swarm)}

\* ------------------------------------------------------- app.rs
\* App::new, Ui::new, Connection::new
Init ==
    /\ pc = "select"
    /\ page_focus = "Chat"
    /\ connection_page_focus = "AddrInputField"
    /\ chat_input = << >>
    /\ addr_input = << >>
    /\ connection_log_allocation = None
    /\ selected = Some(0)
    /\ history = << >>
    /\ log = << >>
    /\ swarm = InitialSwarm
    /\ current_topic = "test-net"
    /\ input_terminated = FALSE
    /\ swarms_built = InitialSwarm
    /\ superseded = {}
    /\ called = None
    /\ last = None
    /\ dispatched = None
    /\ tab_parity = 0

\* App::run, the input arm of select!: Ok(input_event)
InputEvent ==
    /\ pc = "select"
    /\ ~input_terminated
    /\ \E ev \in InputEvents, out \in Outcomes :
          /\ handle_input_event(ev, out)
          /\ last' = <<"input", ev, out>>
          /\ tab_parity' = IF IsTab(ev) THEN 1 - tab_parity ELSE tab_parity
    /\ WithinBounds'
    /\ UNCHANGED <<connection_log_allocation, input_terminated>>

\* App::run, the input arm of select!: Err(e), which is only logged
InputDecodeError ==
    /\ pc = "select"
    /\ ~input_terminated
    /\ pc' = "render"
    /\ last' = <<"input_error">>
    /\ called' = None
    /\ dispatched' = None
    /\ UNCHANGED <<page_focus, connection_page_focus, chat_input, addr_input,
                   connection_log_allocation, selected, history, log, swarm, current_topic,
                   input_terminated, swarms_built, superseded, tab_parity>>

\* The input stream ends: select_next_some() on the fused stream stays
\* pending and the arm is disabled from then on.
InputStreamEnd ==
    /\ pc = "select"
    /\ ~input_terminated
    /\ input_terminated' = TRUE
    /\ UNCHANGED <<pc, page_focus, connection_page_focus, chat_input, addr_input,
                   connection_log_allocation, selected, history, log, swarm, current_topic, swarms_built, superseded, called, last,
                   dispatched, tab_parity>>

\* App::run, the swarm arm of select!
ConnectionEvent ==
    /\ pc = "select"
    /\ \E ev \in ConnectionEvents :
          /\ handle_connection_event(ev)
          /\ last' = <<"connection", ev, Ok>>
    /\ called' = <<"poll", PolledSwarm>>
    /\ dispatched' = None
    /\ pc' = "render"
    /\ WithinBounds'
    /\ UNCHANGED <<connection_log_allocation, input_terminated, tab_parity>>

\* ui::draw_ui: draw_connection_page records the log's rectangle; an Err ends run().
Render ==
    /\ pc = "render"
    /\ \E drawn \in BOOLEAN :
          IF drawn
          THEN /\ pc' = "select"
               /\ connection_log_allocation' =
                      IF page_focus = "Connection"
                      THEN Some(ConnectionLogRect(TermSize))
                      ELSE connection_log_allocation
          ELSE /\ pc' = "failed"
               /\ UNCHANGED connection_log_allocation
    /\ last' = None
    /\ called' = None
    /\ dispatched' = None
    /\ UNCHANGED <<page_focus, connection_page_focus, chat_input, addr_input, selected,
                   history, log, swarm, current_topic, input_terminated,
                   swarms_built, superseded, tab_parity>>

Next ==
    \/ InputEvent
    \/ InputDecodeError
    \/ InputStreamEnd
    \/ ConnectionEvent
    \/ Render

Spec == Init /\ [][Next]_vars

\* ======================================================= properties
EnterKey == KeyEvent(<<"Enter">>, "NONE")
TabKey == KeyEvent(<<"Tab">>, "NONE")
DownKey == KeyEvent(<<"Down">>, "NONE")
ScrollDownInside == MouseEvent("ScrollDown", 1, 4)
ScrollUpInside == MouseEvent("ScrollUp", 1, 4)

Last(q) == q[Len(q)]
Min(a, b) == IF a <= b THEN a ELSE b
Max(a, b) == IF a >= b THEN a ELSE b

\* The step handles input event ev, whose external call (if any) returns out.
InputStep(ev, out) == pc = "select" /\ last' = <<"input", ev, out>>
\* The state is the one the handling of input event ev has just produced.
JustHandledInput(ev) == pc = "render" /\ last # None /\ last[1] = "input" /\ last[2] = ev
\* The step handles a received gossipsub message.
MessageReceivedStep ==
    /\ pc = "select" /\ last' # None /\ last'[1] = "connection"
    /\ last'[2].type = "Behaviour" /\ last'[2].event = "Message"
\* q is p with exactly one entry appended.
OneAppended(p, q) == Len(q) = Len(p) + 1 /\ SubSeq(q, 1, Len(p)) = p
\* Every network call acts on the live handle, never on a superseded one.
CallOnLiveHandle == called # None => called[2] = swarm /\ called[2] \notin superseded

\* ------------------------------------------------------- C1
\* C1: Enter on the Chat page with chat input buffer b appends exactly one
\* message to the history, with text b and the local peer id of the live
\* swarm, and empties the buffer, whether publish succeeds or fails; a
\* failed publish also appends one "Publish error" entry to the log.
C1_ChatEnterEchoesMessage ==
    [][\A out \in Outcomes :
          (InputStep(EnterKey, out) /\ page_focus = "Chat") =>
              /\ history' = Append(history, [text |-> chat_input, peer_id |-> LocalPeerId(swarm)])
              /\ chat_input' = << >>
              /\ (out # Ok => OneAppended(log, log') /\ Last(log')[1] = "Publish error: ")
      ]_vars

\* A failed publish of the empty buffer on the second swarm, after a message
\* that the first swarm sent.
C1_Witness ==
    /\ JustHandledInput(EnterKey) /\ last[3] # Ok /\ page_focus = "Chat"
    /\ Len(history) = 2
    /\ history[1] = [text |-> <<Slash>>, peer_id |-> 1]
    /\ history[2] = [text |-> << >>, peer_id |-> 2]
    /\ swarm = 2
    /\ log # << >> /\ Last(log)[1] = "Publish error: "

\* ------------------------------------------------------- C2
\* C2: a received message with payload b and source p appends exactly one
\* message to the history, with author p and text the lossy UTF-8 decoding
\* of b (an ill-formed byte decodes to U+FFFD), appends exactly one
\* "Got message" entry to the log, and changes nothing else.
C2_MessageReceived ==
    [][MessageReceivedStep =>
          /\ history' = Append(history, [text |-> FromUtf8Lossy(last'[2].data),
                                         peer_id |-> last'[2].source])
          /\ (last'[2].data = <<104, 255, 195, 169>>
                => Last(history').text = <<104, 65533, 233>>)
          /\ OneAppended(log, log') /\ Last(log')[1] = "Got message: "
          /\ UNCHANGED <<page_focus, connection_page_focus, chat_input, addr_input,
                         connection_log_allocation, selected, swarm, current_topic>>
      ]_vars

\* A message received after another entry of the history.
C2_Witness ==
    /\ pc = "render" /\ last # None /\ last[1] = "connection"
    /\ last[2].type = "Behaviour" /\ last[2].event = "Message"
    /\ Len(history) = 2 /\ Len(log) = 2
    /\ history[2] = [text |-> <<104, 65533, 233>>, peer_id |-> AuthorPeer]

\* ------------------------------------------------------- C3
\* C3: a successful regeneration replaces the swarm by a fresh one and leaves
\* the log empty, and every publish, dial and poll acts on the swarm that is
\* live when it is issued, never on a superseded one.
C3_RegenerationReplacesHandle ==
    [][/\ (/\ InputStep(EnterKey, Ok)
           /\ page_focus = "Connection" /\ connection_page_focus = "RegenerateSwarm")
          => /\ swarm' \notin superseded \cup {swarm}
             /\ swarm \in superseded'
             /\ log' = << >>
       /\ CallOnLiveHandle'
      ]_vars

\* A poll of the second swarm's events, after the regeneration that built it.
C3_Witness ==
    /\ pc = "render" /\ called # None /\ called[1] = "poll" /\ called[2] = 2
    /\ superseded = {1}

\* ------------------------------------------------------- C4
\* C4: a regeneration that clears the log resets the list selection to none.
C4_RegenerationUnselects ==
    (JustHandledInput(EnterKey) /\ last[3] = Ok
     /\ page_focus = "Connection" /\ connection_page_focus = "RegenerateSwarm")
        => selected = None

\* ------------------------------------------------------- C5
\* C5: a failed regeneration appends the failure to the log, leaves the live
\* swarm in place, the loop goes on, and every later publish, dial and poll
\* acts on that swarm.
C5_FailedRegenerationKeepsHandle ==
    [][/\ \A e \in GenerateErrors :
            (/\ InputStep(EnterKey, <<e>>)
             /\ page_focus = "Connection" /\ connection_page_focus = "RegenerateSwarm")
            => /\ swarm' = swarm
               /\ superseded' = superseded
               /\ log' # << >> /\ Last(log') = <<"regenerate_swarm() failed with Err ", e>>
               /\ pc' = "render"
       /\ (called' # None => called'[2] = swarm' /\ swarm' \in 1..swarms_built')
      ]_vars

\* A publish on the first swarm after a regeneration failed.
C5_Witness ==
    /\ pc = "render" /\ called # None /\ called[1] = "publish" /\ called[2] = 1
    /\ superseded = {}
    /\ log # << >> /\ log[1][1] = "regenerate_swarm() failed with Err "

\* ------------------------------------------------------- C6
\* C6: in every reachable state the selected index of the connection log,
\* when present, is less than the length of the log.
C6_SelectedIndexInLog == selected # None => selected[1] < Len(log)

\* ------------------------------------------------------- C7
\* C7: on a log of length L >= 1, connection_log_next selects 0 from no
\* selection and min(i + 1, L - 1) from selection i; connection_log_previous
\* selects max(i - 1, 0) from selection i.
C7_NextPreviousClamp ==
    [][(/\ page_focus = "Connection" /\ connection_page_focus = "ConnectionLog"
        /\ connection_log_allocation # None
        /\ Len(log) >= 1 /\ pc' = "render")
       => /\ InputStep(ScrollDownInside, Ok)
             => selected' = IF selected = None THEN Some(0)
                            ELSE Some(Min(selected[1] + 1, Len(log) - 1))
          /\ (InputStep(ScrollUpInside, Ok) /\ selected # None)
             => selected' = Some(Max(selected[1] - 1, 0))
      ]_vars

\* ------------------------------------------------------- C8
\* C8: after n handled Tab presses, interleaved with any other events, the
\* page is Chat when n is even and Connection when n is odd.
C8_PageFollowsTabParity ==
    page_focus = IF tab_parity = 0 THEN "Chat" ELSE "Connection"

\* A Tab press that brought the page back to Chat.
C8_Witness == JustHandledInput(TabKey) /\ tab_parity = 0 /\ page_focus = "Chat"

\* ------------------------------------------------------- C9
\* C9: on every connection-field focus f, prev(next(f)) = f = next(prev(f)),
\* next(next(next(f))) = f and next(f) # f; next runs ConnectionLog,
\* RegenerateSwarm, AddrInputField, ConnectionLog.
C9_ConnectionFocusCycle ==
    LET f == connection_page_focus IN
    /\ ConnectionPageFocusPrev(ConnectionPageFocusNext(f)) = f
    /\ ConnectionPageFocusNext(ConnectionPageFocusPrev(f)) = f
    /\ ConnectionPageFocusNext(ConnectionPageFocusNext(ConnectionPageFocusNext(f))) = f
    /\ ConnectionPageFocusNext(f) # f
    /\ (f = "ConnectionLog" => ConnectionPageFocusNext(f) = "RegenerateSwarm")
    /\ (f = "RegenerateSwarm" => ConnectionPageFocusNext(f) = "AddrInputField")
    /\ (f = "AddrInputField" => ConnectionPageFocusNext(f) = "ConnectionLog")

\* A Down press that moved the focus on to RegenerateSwarm.
C9_Witness ==
    /\ JustHandledInput(DownKey) /\ page_focus = "Connection"
    /\ connection_page_focus = "RegenerateSwarm"

\* ------------------------------------------------------- C10
\* C10: Enter with AddrInputField focus on a buffer that is no address (here:
\* a non-empty run of '/') appends exactly one entry to the log, issues no
\* dial, and changes nothing else.
C10_ParseFailureOnlyLogs ==
    [][(/\ InputStep(EnterKey, Ok)
        /\ page_focus = "Connection" /\ connection_page_focus = "AddrInputField"
        /\ addr_input # << >> /\ \A i \in 1..Len(addr_input) : addr_input[i] = Slash)
       => /\ OneAppended(log, log')
          /\ Last(log')[1] = "parsing input as MultiAddr failed with Err "
          /\ called' = None
          /\ UNCHANGED <<addr_input, page_focus, connection_page_focus, chat_input, history,
                         swarm, current_topic, selected, connection_log_allocation,
                         superseded>>
      ]_vars

\* A parse failure logged after an earlier entry.
C10_Witness ==
    /\ JustHandledInput(EnterKey) /\ page_focus = "Connection"
    /\ connection_page_focus = "AddrInputField" /\ addr_input = <<Slash>>
    /\ Len(log) = 2 /\ Last(log)[1] = "parsing input as MultiAddr failed with Err "
    /\ called = None

QuitKey == KeyEvent(<<"Char", 99>>, "CONTROL")

\* C12: Ctrl+C makes the dispatch return Quit whatever the page and the
\* focus, and changes nothing of the application state; once it has been
\* handled the loop is over: no render and no further event follows.
C12_QuitEndsLoop ==
    [][/\ \A out \in Outcomes :
             InputStep(QuitKey, out) =>
                 /\ pc' = "done"
                 /\ called' = None /\ dispatched' = None
                 /\ UNCHANGED <<page_focus, connection_page_focus, chat_input, addr_input,
                                connection_log_allocation, selected, history, log, swarm,
                                current_topic, swarms_built, superseded, input_terminated>>
       /\ pc # "done"
      ]_vars

\* Ctrl+C handled on the Connection page with the log list focused, after
\* the history and the log have grown.
C12_Witness ==
    /\ pc = "done" /\ last = <<"input", QuitKey, Ok>>
    /\ page_focus = "Connection" /\ connection_page_focus = "ConnectionLog"
    /\ history # << >> /\ log # << >>

\* ------------------------------------------------------- C13
\* C13: Tab advances the page focus and is consumed: the dispatch calls no
\* page handler with it, neither that of the page active before the toggle
\* nor that of the page active after it.
C13_TabIsConsumed ==
    [][\A out \in Outcomes :
          InputStep(TabKey, out) =>
              /\ page_focus' = PageFocusNext(page_focus)
              /\ dispatched' = None
      ]_vars

\* ------------------------------------------------------- C14
\* C14: handling and rendering strictly alternate: an iteration handles one
\* event (an input event, an undecodable input or a network event) and then
\* renders once, before the next event is observed; the one iteration that
\* does not render is the one whose event produced Quit.
C14_HandleThenRender ==
    [][/\ (pc = "select" /\ last' # None) =>
              IF last'[1] = "input" /\ last'[2] = QuitKey THEN pc' = "done" ELSE pc' = "render"
       /\ pc = "render" => (pc' \in {"select", "failed"} /\ last' = None)
       /\ pc' = "render" => (pc = "select" /\ last' # None)
      ]_vars

\* ------------------------------------------------------- C15
\* The step commits the chat input buffer.
ChatCommitStep == pc = "select" /\ page_focus = "Chat" /\ \E out \in Outcomes : InputStep(EnterKey, out)
\* The step regenerates the swarm, which clears the log.
RegenerateStep ==
    /\ pc = "select" /\ page_focus = "Connection" /\ connection_page_focus = "RegenerateSwarm"
    /\ \E out \in Outcomes : InputStep(EnterKey, out)
\* The step handles a network event of the given type.
NetworkStep(type) == pc = "select" /\ last' # None /\ last'[1] = "connection" /\ last'[2].type = type

\* C15: events are reflected exactly once and in the order they are handled:
\* a chat commit or a received message appends its one message at the end of
\* the history and no other step touches the history; a step that adds to
\* the log adds at its end, a network event that is logged adding one entry.
C15_EventsInArrivalOrder ==
    [][/\ ChatCommitStep =>
              history' = Append(history, [text |-> chat_input, peer_id |-> LocalPeerId(swarm)])
       /\ MessageReceivedStep =>
              /\ history' = Append(history, [text |-> FromUtf8Lossy(last'[2].data),
                                             peer_id |-> last'[2].source])
              /\ OneAppended(log, log') /\ Last(log')[1] = "Got message: "
       /\ ~(ChatCommitStep \/ MessageReceivedStep) => history' = history
       /\ NetworkStep("NewListenAddr") =>
              OneAppended(log, log') /\ Last(log')[1] = "Listening on "
       /\ ~RegenerateStep => (Len(log') >= Len(log) /\ SubSeq(log', 1, Len(log)) = log)
      ]_vars

\* A message committed after one was received: the history holds the
\* received one first, the log its "Got message" entry.
C15_Witness ==
    /\ JustHandledInput(EnterKey) /\ page_focus = "Chat"
    /\ Len(history) = 2
    /\ history[1].peer_id = AuthorPeer /\ history[2].peer_id = LocalPeerId(swarm)
    /\ log # << >> /\ Last(log)[1] = "Got message: "

\* ------------------------------------------------------- C16
\* The step handles an event whose network call failed (publish, dial or
\* regeneration), or a transport error event.
NetworkFailureStep ==
    /\ pc = "select" /\ last' # None
    /\ \/ last'[1] = "input" /\ last'[3] # Ok
       \/ last'[1] = "connection" /\ last'[2].type = "OutgoingConnectionError"

\* C16: no network-layer failure ends the loop: the iteration that met it
\* goes on to render and the loop to later events; the loop ends only when
\* input handling returns Quit or a render fails.
C16_OnlyQuitEndsLoop ==
    [][/\ NetworkFailureStep => pc' = "render"
       /\ (pc = "select" /\ pc' \notin {"select", "render"}) =>
              (pc' = "done" /\ last' # None /\ last'[1] = "input" /\ last'[2] = QuitKey)
       /\ (pc = "render" /\ pc' # "select") => pc' = "failed"
      ]_vars

\* ------------------------------------------------------- C17
\* C17: a network event that is neither a listening address nor a received
\* message appends one description of itself to the log (a generic
\* behaviour event as well as a transport-level error) and leaves the
\* handle and the history as they are.
C17_OtherNetworkEventsLogged ==
    [][(/\ pc = "select" /\ last' # None /\ last'[1] = "connection"
        /\ last'[2].type # "NewListenAddr"
        /\ ~(last'[2].type = "Behaviour" /\ last'[2].event = "Message"))
       => /\ OneAppended(log, log')
          /\ UNCHANGED <<swarm, history>>
      ]_vars

\* ------------------------------------------------------- C18
\* C18: the end of the input stream is equivalent to Quit: once the input
\* source has ended the loop handles no further network event and renders
\* no more.
C18_StreamEndIsQuit ==
    [][input_terminated => (pc' = pc /\ last' = last /\ log' = log /\ history' = history)]_vars

\* ------------------------------------------------------- C19
\* C19: input dispatch never raises or aborts: whatever the event and the
\* state, a scroll inside the log region over an empty log included,
\* handle_input_event completes and returns Continue or Quit.
C19_DispatchNeverAborts ==
    [][(pc = "select" /\ last' # None /\ last'[1] = "input") => pc' \in {"render", "done"}]_vars

\* ------------------------------------------------------- C20
\* The cell (column, row) lies in the rectangle: x <= column < x + width and
\* y <= row < y + height.
RectContains(coord, rect) ==
    /\ rect.x <= coord[1] /\ coord[1] < rect.x + rect.width
    /\ rect.y <= coord[2] /\ coord[2] < rect.y + rect.height

\* C20: on the Connection page with ConnectionLog focus, a scroll event at
\* (column, row) moves the selection (down: next, up: previous) exactly when
\* the cell lies in the last recorded log rectangle, and coord_in_rect
\* agrees with membership in that rectangle; a scroll outside it leaves the
\* selection unchanged.
C20_ScrollHitTest ==
    [][\A k \in {"ScrollDown", "ScrollUp"}, c \in MouseCoords :
          (/\ InputStep(MouseEvent(k, c[1], c[2]), Ok)
           /\ page_focus = "Connection" /\ connection_page_focus = "ConnectionLog"
           /\ connection_log_allocation # None
           /\ pc' = "render")
          => LET rect == connection_log_allocation[1] IN
             /\ CoordInRect(c, rect) <=> RectContains(c, rect)
             /\ RectContains(c, rect) =>
                    selected' = Some(IF k = "ScrollDown"
                                     THEN ConnectionLogNext(selected, Len(log))
                                     ELSE ConnectionLogPrevious(selected))
             /\ ~RectContains(c, rect) => selected' = selected
      ]_vars

\* ------------------------------------------------------- C21
\* p is a prefix of q: q keeps every entry of p, in place and unchanged.
IsPrefix(p, q) == Len(p) <= Len(q) /\ SubSeq(q, 1, Len(p)) = p

\* C21: the history and the log are append-only: whatever event a step
\* handles, a regeneration included, the history before it is a prefix of
\* the history after it; the log before it is a prefix of the log after it
\* unless the step is a regeneration, the one operation that empties it.
C21_AppendOnly ==
    [][/\ IsPrefix(history, history')
       /\ ~IsPrefix(log, log') => RegenerateStep
       /\ (log # << >> /\ log' = << >>) => RegenerateStep
      ]_vars

\* A regeneration that emptied the log and kept a history of two messages.
C21_Witness ==
    /\ JustHandledInput(EnterKey) /\ last[3] = Ok
    /\ page_focus = "Connection" /\ connection_page_focus = "RegenerateSwarm"
    /\ swarm # InitialSwarm /\ log = << >>
    /\ Len(history) = 2 /\ history[1].peer_id = AuthorPeer

\* ------------------------------------------------------- C22
\* C22: no network event of a superseded handle is ever handled: the event
\* an iteration handles, and with it whatever that event adds to the
\* history or the log, comes from a poll of the handle that is live in that
\* iteration, never from one a regeneration has replaced.
C22_SupersededEventsDropped ==
    [][/\ (pc = "select" /\ last' # None /\ last'[1] = "connection") =>
              /\ called' # None /\ called'[1] = "poll"
              /\ called'[2] = swarm /\ called'[2] \notin superseded
              /\ swarm' = swarm /\ superseded' = superseded
       /\ (called' # None /\ called'[1] = "poll") =>
              (pc = "select" /\ last' # None /\ last'[1] = "connection")
      ]_vars

\* A message of the second handle handled after the first was replaced.
C22_Witness ==
    /\ pc = "render" /\ last # None /\ last[1] = "connection"
    /\ last[2].type = "Behaviour" /\ last[2].event = "Message"
    /\ called = <<"poll", GenerateSwarm - 1>> /\ superseded = {InitialSwarm}
    /\ history # << >> /\ Last(log)[1] = "Got message: "

\* ------------------------------------------------------- C23
\* C23: the regeneration empties the log before it tries to build the new
\* handle: after a failed regeneration the log is exactly the one failure
\* entry, whatever it held before, and the old handle is still the live one.
C23_FailedRegenerationLog ==
    [][\A e \in GenerateErrors :
          (/\ InputStep(EnterKey, <<e>>)
           /\ page_focus = "Connection" /\ connection_page_focus = "RegenerateSwarm")
          => /\ Len(log') = 1
             /\ log'[1] = <<"regenerate_swarm() failed with Err ", e>>
             /\ \A i \in 1..Len(log) : log[i][1] # "regenerate_swarm() failed with Err " =>
                    log[i] \notin {log'[j] : j \in 1..Len(log')}
             /\ swarm' = swarm /\ swarm' \notin superseded'
      ]_vars

\* A failed regeneration on the first handle after a message was received:
\* the message is in the history, its log entry is gone.
C23_Witness ==
    /\ JustHandledInput(EnterKey) /\ last[3] # Ok
    /\ page_focus = "Connection" /\ connection_page_focus = "RegenerateSwarm"
    /\ history # << >> /\ history[1].peer_id = AuthorPeer
    /\ Len(log) = 1 /\ log[1][1] = "regenerate_swarm() failed with Err "
    /\ swarm = InitialSwarm /\ superseded = {}

\* ------------------------------------------------------- C24
\* C24: a history entry made by a local send carries the identity of the
\* handle live when it was sent and is never re-tagged; a regeneration that
\* succeeds brings a fresh identity, so none of the entries sent before it
\* passes the render's own-message test afterwards.
C24_SentEntriesKeepIdentity ==
    [][/\ ChatCommitStep =>
              /\ Last(history').peer_id = LocalPeerId(swarm)
              /\ Len(history') \in OwnMessages'
       /\ \A i \in 1..Len(history) :
              Len(history') >= i /\ history'[i].peer_id = history[i].peer_id
       /\ (RegenerateStep /\ swarm' # swarm) =>
              /\ OwnMessages' = {}
              /\ \A i \in OwnMessages : history'[i].peer_id = LocalPeerId(swarm)
      ]_vars

\* A successful regeneration after a message was sent on the first handle:
\* the entry keeps the first identity and is no longer shown as own.
C24_Witness ==
    /\ JustHandledInput(EnterKey) /\ last[3] = Ok
    /\ page_focus = "Connection" /\ connection_page_focus = "RegenerateSwarm"
    /\ history # << >> /\ history[1].peer_id = LocalPeerId(InitialSwarm)
    /\ swarm # InitialSwarm /\ OwnMessages = {}

=============================================================================
